---- MODULE Spec2Model ----
(***************************************************************************)
(* A model of glue/core/data_factories/hdf5.py (extract_hdf5_datasets,     *)
(* extract_data_hdf5, hdf5_reader) and of glue/core/visual.py              *)
(* (VisualAttributes).                                                     *)
(*                                                                         *)
(* Strings are modelled as sequences of tokens, so that a full path such   *)
(* as "/g/a" (<<"/","g","/","a">>) differs from its last segment "a"       *)
(* (<<"a">>) and a label "x[/a]" is <<"x","[","/","a","]">>.               *)
(***************************************************************************)
EXTENDS Integers, Sequences, FiniteSets, TLC

VARIABLES
    \* ---- hdf5.py ----
    file,            \* the HDF5 file: the root Group of a tree of Groups and Datasets
    filename,        \* argument `filename` (token sequence)
    auto_merge,      \* argument `auto_merge` of hdf5_reader
    use_datasets,    \* argument `use_datasets` of extract_data_hdf5
    pc,              \* position of the running function
    handle,          \* state of file_handle: "unopened", "open", "closed"
    events,          \* what was done to the file, in order: open, read of a leaf, close
    datasets,        \* local `datasets`: dict path -> Dataset
    order,           \* the iteration order of the dict `datasets`
    pos,             \* index in `order` of the next key of the running for loop
    label_base,      \* local `label_base`
    data_by_shape,   \* local `data_by_shape`: dict shape -> Data (index in heap)
    groups,          \* local `groups`: OrderedDict label -> Data (index in heap)
    heap,            \* the Data objects created so far
    reference_shape, \* local `reference_shape`
    arrays,          \* local `arrays`: dict path -> array
    result,          \* the returned value
    error,           \* the raised exception, [type |-> "none"] when none
    \* ---- visual.py ----
    attrs,           \* the __dict__ of the VisualAttributes object: attribute -> value
    last,            \* the last call on the object: its name, arguments and exception
    before,          \* attrs as it was when the last call began
    sent             \* the broadcasts of the last call, in order: receiver and the
                     \* object as the receiver saw it

hvars == <<file, filename, auto_merge, use_datasets, pc, handle, events, datasets,
           order, pos, label_base, data_by_shape, groups, heap, reference_shape,
           arrays, result, error>>

vvars == <<attrs, last, before, sent>>

vars == <<hvars, vvars>>

-----------------------------------------------------------------------------
(* Bounds of the model *)

\* number of distinct shapes a leaf of the file can have
NumShapes == 2

\* the largest line width written to the object
MaxWidth == 2

-----------------------------------------------------------------------------
(* Dicts: functions with a finite domain *)

EmptyDict == [k \in {} |-> k]

DictPut(d, k, v) == [x \in DOMAIN d \cup {k} |-> IF x = k THEN v ELSE d[x]]

DictPop(d, ks) == [x \in DOMAIN d \ ks |-> d[x]]

\* every order in which the keys of a dict can be iterated
IterationOrders(d) ==
    {s \in [1..Cardinality(DOMAIN d) -> DOMAIN d] :
        \A i, j \in 1..Cardinality(DOMAIN d) : i # j => s[i] # s[j]}

RECURSIVE SelectKeys(_, _)
\* the subsequence of s whose elements are in ks
SelectKeys(s, ks) ==
    IF s = <<>> THEN <<>>
    ELSE IF Head(s) \in ks THEN <<Head(s)>> \o SelectKeys(Tail(s), ks)
         ELSE SelectKeys(Tail(s), ks)

-----------------------------------------------------------------------------
(* The files *)

PathA == <<"/", "a">>
PathGA == <<"/", "g", "/", "a">>
PathGB == <<"/", "g", "/", "b">>
PathG == <<"/", "g">>
Paths == {PathA, PathGA, PathGB}

Shapes == {<<2 + n>> : n \in 1..NumShapes} \cup {<<0, 2>>}

\* dtype.kind and whether dtype.fields is not None
DTypes == {[kind |-> "f", fields |-> FALSE], [kind |-> "i", fields |-> FALSE],
           [kind |-> "S", fields |-> FALSE], [kind |-> "V", fields |-> TRUE],
           [kind |-> "V", fields |-> FALSE]}

Absent == [kind |-> "absent", fields |-> FALSE, shape |-> <<>>]

LeafChoices == {[kind |-> t.kind, fields |-> t.fields, shape |-> s] : t \in DTypes, s \in Shapes}
                 \cup {Absent}

Dataset(path, c) ==
    IF c = Absent THEN <<>>
    ELSE <<[type |-> "Dataset", name |-> path, kind |-> c.kind, fields |-> c.fields,
            shape |-> c.shape]>>

\* the root group: an optional dataset /a and a group /g of optional datasets /g/a, /g/b
File(ca, cga, cgb) ==
    [type |-> "Group", name |-> <<"/">>,
     children |-> Dataset(PathA, ca)
                    \o <<[type |-> "Group", name |-> PathG,
                          children |-> Dataset(PathGA, cga) \o Dataset(PathGB, cgb)]>>]

Files == {File(ca, cga, cgb) : ca \in LeafChoices, cga \in LeafChoices, cgb \in LeafChoices}

Filenames == {<<"d", "/", "x", ".", "h5">>, <<"x">>}

\* datasets[key].value
Value(leaf) == [of |-> leaf.name, shape |-> leaf.shape]

NoError == [type |-> "none"]

Read(key) == [ev |-> "read", path |-> key]

-----------------------------------------------------------------------------
(* extract_hdf5_datasets *)

RECURSIVE ExtractHdf5Datasets(_)
RECURSIVE ExtractChildren(_, _)

\* the dict after the first n children of the group were visited
ExtractChildren(children, n) ==
    IF n = 0 THEN EmptyDict
    ELSE LET d == ExtractChildren(children, n - 1)
             c == children[n]
         IN IF c.type = "Group"
            THEN LET sub == ExtractHdf5Datasets(c)
                 IN [k \in DOMAIN d \cup DOMAIN sub |->
                        IF k \in DOMAIN sub THEN sub[k] ELSE d[k]]
            ELSE IF c.type = "Dataset" /\ c.kind \in {"f", "i", "V"}
            THEN DictPut(d, c.name, c)
            ELSE d

ExtractHdf5Datasets(h) == ExtractChildren(h.children, Len(h.children))

-----------------------------------------------------------------------------
(* String helpers of hdf5_reader *)

RECURSIVE LastIndexOf(_, _, _)
\* the largest i <= n with s[i] = t, 0 when there is none
LastIndexOf(s, t, n) ==
    IF n = 0 THEN 0 ELSE IF s[n] = t THEN n ELSE LastIndexOf(s, t, n - 1)

\* os.path.basename
Basename(s) == SubSeq(s, LastIndexOf(s, "/", Len(s)) + 1, Len(s))

\* s.rpartition('.')[0]
RPartitionHead(s) ==
    LET i == LastIndexOf(s, ".", Len(s)) IN IF i = 0 THEN <<>> ELSE SubSeq(s, 1, i - 1)

LabelBase(fname) ==
    IF RPartitionHead(Basename(fname)) # <<>>
    THEN RPartitionHead(Basename(fname))
    ELSE Basename(fname)

\* '{0}[{1}]'.format(label_base, key)
Label(base, key) == base \o <<"[">> \o key \o <<"]">>

-----------------------------------------------------------------------------
(* Initial states of the hdf5 functions *)

HInit(start) ==
    /\ file \in Files
    /\ pc = start
    /\ handle = "unopened"
    /\ events = <<>>
    /\ datasets = EmptyDict
    /\ order = <<>>
    /\ pos = 1
    /\ label_base = <<>>
    /\ data_by_shape = EmptyDict
    /\ groups = <<>>
    /\ heap = <<>>
    /\ reference_shape = <<>>
    /\ arrays = EmptyDict
    /\ result = <<>>
    /\ error = NoError

-----------------------------------------------------------------------------
(* hdf5_reader *)

Opened == [ev |-> "open", path |-> <<>>]
Closed == [ev |-> "close", path |-> <<>>]

\* Data(label=label)
NewData(label) == [label |-> label, components |-> <<>>]

\* data.add_component(component=..., label=...)
AddComponent(h, id, label, values, units) ==
    [h EXCEPT ![id].components =
        Append(@, [label |-> label, values |-> values, units |-> units])]

\* groups[label] = data with the new entry put first
OrderedDictSet_Front(od, k, v) == <<[key |-> k, data |-> v]>> \o od

\* groups[label] = data on an OrderedDict: a known key keeps its place
OrderedDictSet(od, k, v) ==
    IF \E i \in 1..Len(od) : od[i].key = k
    THEN [i \in 1..Len(od) |-> IF od[i].key = k THEN [key |-> k, data |-> v] ELSE od[i]]
    ELSE Append(od, [key |-> k, data |-> v])

\* line 122 without its test of auto_merge
ReuseRecord_IgnoresAutoMerge(am, shape, dbs) == shape \in DOMAIN dbs

\* the condition of line 122
ReuseRecord(am, shape, dbs) == am /\ shape \in DOMAIN dbs

\* the last segment of a path
LeafName(key) == <<key[Len(key)]>>

\* line 128 labelling the component with the leaf's name
ComponentLabel_LeafName(key) == LeafName(key)

\* the label of the component a plain leaf adds (line 128)
ComponentLabel(key) == key

\* the columns of the table Table.read gives for a leaf, with their units
TableColumns == <<[name |-> <<"c1">>, unit |-> <<"m">>], [name |-> <<"c2">>, unit |-> <<>>]>>

RECURSIVE AddColumns(_, _, _, _)
\* lines 133-137 for the first n columns
AddColumns(h, id, leaf, n) ==
    IF n = 0 THEN h
    ELSE AddComponent(AddColumns(h, id, leaf, n - 1), id, TableColumns[n].name,
                      [of |-> leaf.name, column |-> TableColumns[n].name],
                      TableColumns[n].unit)

R_Open ==
    /\ pc = "r_start"
    /\ handle' = "open"
    /\ events' = Append(events, Opened)
    /\ pc' = "r_opened"
    /\ UNCHANGED vvars
    /\ UNCHANGED <<file, filename, auto_merge, use_datasets, datasets, order, pos,
                   label_base, data_by_shape, groups, heap, reference_shape, arrays,
                   result, error>>

\* lines 105-114
R_Collect ==
    /\ pc = "r_opened"
    /\ datasets' = ExtractHdf5Datasets(file)
    /\ order' \in IterationOrders(datasets')
    /\ label_base' = LabelBase(filename)
    /\ data_by_shape' = EmptyDict
    /\ groups' = <<>>
    /\ pos' = 1
    /\ pc' = "r_loop"
    /\ UNCHANGED vvars
    /\ UNCHANGED <<file, filename, auto_merge, use_datasets, handle, events, heap,
                   reference_shape, arrays, result, error>>

\* one iteration of the loop of line 116 on a leaf of kind 'f' or 'i'
R_Plain ==
    /\ pc = "r_loop" /\ pos <= Len(order)
    /\ LET key == order[pos]
           leaf == datasets[key]
           label == Label(label_base, key)
           shape == Value(leaf).shape
       IN /\ leaf.kind \in {"f", "i"}
          /\ IF ReuseRecord(auto_merge, shape, data_by_shape)
             THEN /\ heap' = AddComponent(heap, data_by_shape[shape], ComponentLabel(key),
                                          Value(leaf), <<>>)
                  /\ events' = events \o <<Read(key), Read(key), Read(key)>>
                  /\ UNCHANGED <<data_by_shape, groups>>
             ELSE LET id == Len(heap) + 1
                  IN /\ heap' = AddComponent(Append(heap, NewData(label)), id,
                                             ComponentLabel(key), Value(leaf), <<>>)
                     /\ data_by_shape' = DictPut(data_by_shape, shape, id)
                     /\ groups' = OrderedDictSet(groups, label, id)
                     /\ events' = events \o (IF auto_merge
                                             THEN <<Read(key), Read(key), Read(key)>>
                                             ELSE <<Read(key), Read(key)>>)
    /\ pos' = pos + 1
    /\ UNCHANGED vvars
    /\ UNCHANGED <<file, filename, auto_merge, use_datasets, pc, handle, datasets, order,
                   label_base, reference_shape, arrays, result, error>>

\* one iteration of the loop of line 116 on any other leaf, Table.read succeeding
R_Table ==
    /\ pc = "r_loop" /\ pos <= Len(order)
    /\ LET key == order[pos]
           leaf == datasets[key]
           label == Label(label_base, key)
           id == Len(heap) + 1
       IN /\ leaf.kind \notin {"f", "i"}
          /\ heap' = AddColumns(Append(heap, NewData(label)), id, leaf, Len(TableColumns))
          /\ groups' = OrderedDictSet(groups, label, id)
          /\ events' = Append(events, Read(key))
    /\ pos' = pos + 1
    /\ UNCHANGED vvars
    /\ UNCHANGED <<file, filename, auto_merge, use_datasets, pc, handle, datasets, order,
                   label_base, data_by_shape, reference_shape, arrays, result, error>>

\* one iteration of the loop of line 116 on any other leaf, Table.read raising
R_TableRaises ==
    /\ pc = "r_loop" /\ pos <= Len(order)
    /\ LET key == order[pos]
       IN /\ datasets[key].kind \notin {"f", "i"}
          /\ events' = Append(events, Read(key))
          /\ error' = [type |-> "Exception", message |-> "Table.read", path |-> key]
    /\ pc' = "raised"
    /\ UNCHANGED vvars
    /\ UNCHANGED <<file, filename, auto_merge, use_datasets, handle, datasets, order, pos,
                   label_base, data_by_shape, groups, heap, reference_shape, arrays,
                   result>>

\* line 140
R_Close ==
    /\ pc = "r_loop" /\ pos > Len(order)
    /\ handle' = "closed"
    /\ events' = Append(events, Closed)
    /\ pc' = "r_closed"
    /\ UNCHANGED vvars
    /\ UNCHANGED <<file, filename, auto_merge, use_datasets, datasets, order, pos,
                   label_base, data_by_shape, groups, heap, reference_shape, arrays,
                   result, error>>

\* line 142
R_Return ==
    /\ pc = "r_closed"
    /\ result' = [i \in 1..Len(groups) |-> heap[groups[i].data]]
    /\ pc' = "done"
    /\ UNCHANGED vvars
    /\ UNCHANGED <<file, filename, auto_merge, use_datasets, handle, events, datasets,
                   order, pos, label_base, data_by_shape, groups, heap, reference_shape,
                   arrays, error>>

-----------------------------------------------------------------------------
(* extract_data_hdf5 *)

E_Open ==
    /\ pc = "e_start"
    /\ handle' = "open"
    /\ events' = Append(events, Opened)
    /\ pc' = "e_opened"
    /\ UNCHANGED vvars
    /\ UNCHANGED <<file, filename, auto_merge, use_datasets, datasets, order, pos,
                   label_base, data_by_shape, groups, heap, reference_shape, arrays,
                   result, error>>

\* line 50
E_Collect ==
    /\ pc = "e_opened"
    /\ datasets' = ExtractHdf5Datasets(file)
    /\ order' \in IterationOrders(datasets')
    /\ pc' = "e_collected"
    /\ UNCHANGED vvars
    /\ UNCHANGED <<file, filename, auto_merge, use_datasets, handle, events, pos,
                   label_base, data_by_shape, groups, heap, reference_shape, arrays,
                   result, error>>

\* the keys lines 53-56 put in `remove`
Tabular(d) == {key \in DOMAIN d : d[key].fields}

\* lines 53-58
E_Filter ==
    /\ pc = "e_collected"
    /\ datasets' = DictPop(datasets, Tabular(datasets))
    /\ order' = SelectKeys(order, DOMAIN datasets \ Tabular(datasets))
    /\ pc' = "e_filtered"
    /\ UNCHANGED vvars
    /\ UNCHANGED <<file, filename, auto_merge, use_datasets, handle, events, pos,
                   label_base, data_by_shape, groups, heap, reference_shape, arrays,
                   result, error>>

\* line 61 on a dict with a key
E_Reference ==
    /\ pc = "e_filtered"
    /\ order # <<>>
    /\ reference_shape' = Value(datasets[order[1]]).shape
    /\ events' = Append(events, Read(order[1]))
    /\ pos' = 1
    /\ pc' = "e_check"
    /\ UNCHANGED vvars
    /\ UNCHANGED <<file, filename, auto_merge, use_datasets, handle, datasets, order,
                   label_base, data_by_shape, groups, heap, arrays, result, error>>

\* line 61 on an empty dict: list(datasets.keys())[0] raises IndexError
E_ReferenceRaises ==
    /\ pc = "e_filtered"
    /\ order = <<>>
    /\ error' = [type |-> "IndexError", message |-> "list index out of range"]
    /\ pc' = "raised"
    /\ UNCHANGED vvars
    /\ UNCHANGED <<file, filename, auto_merge, use_datasets, handle, events, datasets,
                   order, pos, label_base, data_by_shape, groups, heap, reference_shape,
                   arrays, result>>

\* the condition of line 63
ShapeDiffers(shape, reference) == shape # reference

\* one iteration of the loop of line 62
E_Check ==
    /\ pc = "e_check" /\ pos <= Len(order)
    /\ events' = Append(events, Read(order[pos]))
    /\ IF ShapeDiffers(Value(datasets[order[pos]]).shape, reference_shape)
       THEN /\ error' = [type |-> "Exception",
                         message |-> "Datasets are not all the same dimensions"]
            /\ pc' = "raised"
            /\ UNCHANGED pos
       ELSE /\ pos' = pos + 1
            /\ UNCHANGED <<pc, error>>
    /\ UNCHANGED vvars
    /\ UNCHANGED <<file, filename, auto_merge, use_datasets, handle, datasets, order,
                   label_base, data_by_shape, groups, heap, reference_shape, arrays,
                   result>>

\* line 67
E_CheckDone ==
    /\ pc = "e_check" /\ pos > Len(order)
    /\ arrays' = EmptyDict
    /\ pos' = 1
    /\ pc' = "e_extract"
    /\ UNCHANGED vvars
    /\ UNCHANGED <<file, filename, auto_merge, use_datasets, handle, events, datasets,
                   order, label_base, data_by_shape, groups, heap, reference_shape,
                   result, error>>

\* one iteration of the loop of line 68
E_Extract ==
    /\ pc = "e_extract" /\ pos <= Len(order)
    /\ arrays' = DictPut(arrays, order[pos], Value(datasets[order[pos]]))
    /\ events' = Append(events, Read(order[pos]))
    /\ pos' = pos + 1
    /\ UNCHANGED vvars
    /\ UNCHANGED <<file, filename, auto_merge, use_datasets, pc, handle, datasets, order,
                   label_base, data_by_shape, groups, heap, reference_shape, result, error>>

\* line 72
E_Close ==
    /\ pc = "e_extract" /\ pos > Len(order)
    /\ handle' = "closed"
    /\ events' = Append(events, Closed)
    /\ pc' = "e_closed"
    /\ UNCHANGED vvars
    /\ UNCHANGED <<file, filename, auto_merge, use_datasets, datasets, order, pos,
                   label_base, data_by_shape, groups, heap, reference_shape, arrays,
                   result, error>>

\* line 74
E_Return ==
    /\ pc = "e_closed"
    /\ result' = arrays
    /\ pc' = "done"
    /\ UNCHANGED vvars
    /\ UNCHANGED <<file, filename, auto_merge, use_datasets, handle, events, datasets,
                   order, pos, label_base, data_by_shape, groups, heap, reference_shape,
                   arrays, error>>

-----------------------------------------------------------------------------
(* Python values of visual.py: type(value), and the value as a string or a number *)

PyStr(x) == [type |-> "str", s |-> x, n |-> 0]
PyInt(k) == [type |-> "int", s |-> "", n |-> k]
PyFloat(k) == [type |-> "float", s |-> "", n |-> k]
NaN == [type |-> "float", s |-> "nan", n |-> 0]
PyBool(k) == [type |-> "bool", s |-> "", n |-> k]
None == [type |-> "NoneType", s |-> "", n |-> 0]
\* an object with a broadcast method
Hub(x) == [type |-> "Hub", s |-> x, n |-> 0]
\* an object without one
Object(x) == [type |-> "object", s |-> x, n |-> 0]

VALID_LINESTYLES == <<"solid", "dashed", "dash-dot", "dotted", "none">>

GREY == PyStr("#B2B2B2")
RED == PyStr("#E31A1C")

\* value not in VALID_LINESTYLES
NotInLinestyles(value) ==
    ~(value.type = "str" /\ \E i \in 1..Len(VALID_LINESTYLES) : VALID_LINESTYLES[i] = value.s)

\* value < 0 on a float or an int: False on nan
LessThanZero(value) == value.s # "nan" /\ value.n < 0

\* hasattr(obj, 'broadcast')
HasBroadcast(obj) == obj.type = "Hub"

allowed == {"color", "linewidth", "linestyle", "alpha", "parent", "marker", "markersize",
            "label"}

NoRaise == "none"

\* the call in progress: the object's __dict__, the broadcasts made, the exception raised
Running(a) == [attrs |-> a, sent |-> <<>>, raised |-> NoRaise]

\* the validation of lines 60-76: the exception raised, NoRaise when none
Validate(attribute, value) ==
    IF attribute = "linestyle" /\ NotInLinestyles(value)
    THEN "Line style should be one of solid/dashed/dash-dot/dotted/none"
    ELSE IF attribute = "linewidth" /\ value.type \notin {"float", "int"}
    THEN "Line width should be a float or an int"
    ELSE IF attribute = "linewidth" /\ LessThanZero(value)
    THEN "Line width should be positive"
    ELSE IF attribute \notin allowed
    THEN "Attribute does not exist"
    ELSE NoRaise

\* lines 78-82 with the broadcast made before the store
StoreAndBroadcast_BroadcastFirst(st, attribute, value) ==
    LET stored == DictPut(st.attrs, attribute, value)
    IN [st EXCEPT !.attrs = stored,
                  !.sent = IF "parent" \in DOMAIN stored /\ HasBroadcast(stored["parent"])
                           THEN Append(@, [to |-> stored["parent"], record |-> st.attrs])
                           ELSE @]

\* lines 78-82: store, then broadcast
StoreAndBroadcast(st, attribute, value) ==
    LET stored == DictPut(st.attrs, attribute, value)
    IN [st EXCEPT !.attrs = stored,
                  !.sent = IF "parent" \in DOMAIN stored /\ HasBroadcast(stored["parent"])
                           THEN Append(@, [to |-> stored["parent"], record |-> stored])
                           ELSE @]

\* __setattr__ with the store of line 78 made before the checks of lines 60-76
SetAttr_StoreFirst(st, attribute, value) ==
    IF st.raised # NoRaise THEN st
    ELSE [StoreAndBroadcast(st, attribute, value) EXCEPT !.raised = Validate(attribute, value)]

\* __setattr__ as a statement of a call: skipped once an exception is on its way
SetAttr(st, attribute, value) ==
    IF st.raised # NoRaise THEN st
    ELSE IF Validate(attribute, value) # NoRaise
    THEN [st EXCEPT !.raised = Validate(attribute, value)]
    ELSE StoreAndBroadcast(st, attribute, value)

\* __init__: the assignments of lines 34-48 in order
Construct(parent, washout, color) ==
    SetAttr(SetAttr(SetAttr(SetAttr(SetAttr(SetAttr(SetAttr(SetAttr(
        Running(EmptyDict),
        "color", color),
        "alpha", PyFloat(1)),
        "linewidth", PyInt(1)),
        "linestyle", PyStr("solid")),
        "marker", PyStr("o")),
        "markersize", PyInt(40)),
        "label", None),
        "parent", parent)

\* set: the assignments of lines 51-56 in order
CopyFrom(a, other) ==
    SetAttr(SetAttr(SetAttr(SetAttr(SetAttr(SetAttr(
        Running(a),
        "color", other["color"]),
        "alpha", other["alpha"]),
        "linewidth", other["linewidth"]),
        "linestyle", other["linestyle"]),
        "marker", other["marker"]),
        "markersize", other["markersize"])

-----------------------------------------------------------------------------
(* The calls made on the object *)

Parents == {None, Object("viewer"), Hub("hub1"), Hub("hub2")}

Colors == {GREY, RED}

Widths == {PyInt(k) : k \in -1..MaxWidth} \cup {PyFloat(MaxWidth), NaN}

\* the values written to each attribute; "size" is no attribute of the class
Written(attribute) ==
    CASE attribute = "color" -> Colors
      [] attribute = "alpha" -> {PyFloat(1), PyFloat(0)}
      [] attribute = "linewidth" -> Widths \cup {PyStr("thick"), PyBool(1), None}
      [] attribute = "linestyle" ->
            {PyStr(VALID_LINESTYLES[i]) : i \in 1..Len(VALID_LINESTYLES)}
                \cup {PyStr("bold")}
      [] attribute = "marker" -> {PyStr("o"), PyStr("x")}
      [] attribute = "markersize" -> {PyInt(40), PyInt(10)}
      [] attribute = "label" -> {None, PyStr("lbl")}
      [] attribute = "parent" -> Parents
      [] attribute = "size" -> {PyInt(1)}

\* the objects `set` copies from: VisualAttributes objects, and one object of another
\* class whose linewidth no VisualAttributes accepts
Others ==
    {[color |-> c, alpha |-> PyFloat(1), linewidth |-> w, linestyle |-> PyStr(l),
      marker |-> PyStr("x"), markersize |-> PyInt(10)] :
        c \in {RED}, w \in {PyInt(0), PyFloat(MaxWidth), NaN}, l \in {"dotted"}}
    \cup {[color |-> RED, alpha |-> PyFloat(0), linewidth |-> PyInt(-1),
           linestyle |-> PyStr("dashed"), marker |-> PyStr("x"), markersize |-> PyInt(10)]}

NoCall == [op |-> "none", attribute |-> "", value |-> None]

VIdle ==
    /\ attrs = EmptyDict
    /\ last = [call |-> NoCall, raised |-> NoRaise]
    /\ before = EmptyDict
    /\ sent = <<>>

Finish(call, st) ==
    /\ before' = attrs
    /\ attrs' = st.attrs
    /\ sent' = st.sent
    /\ last' = [call |-> call, raised |-> st.raised]

\* VisualAttributes(parent, washout, color)
V_Init ==
    /\ last.call.op = "none"
    /\ \E parent \in Parents, washout \in BOOLEAN, color \in Colors :
          Finish([op |-> "__init__", attribute |-> "", value |-> parent],
                 Construct(parent, washout, color))
    /\ UNCHANGED hvars

\* obj.<attribute> = value
V_SetAttr ==
    /\ last.call.op # "none"
    /\ \E attribute \in allowed \cup {"size"} :
          \E value \in Written(attribute) :
             Finish([op |-> "__setattr__", attribute |-> attribute, value |-> value],
                    SetAttr(Running(attrs), attribute, value))
    /\ UNCHANGED hvars

\* obj.set(other)
V_Set ==
    /\ last.call.op # "none"
    /\ \E other \in Others :
          Finish([op |-> "set", attribute |-> "", value |-> other["linewidth"]],
                 CopyFrom(attrs, other))
    /\ UNCHANGED hvars

-----------------------------------------------------------------------------
(* The specifications *)

UseDatasets == {[all |-> TRUE, paths |-> {}], [all |-> FALSE, paths |-> {PathA}],
                [all |-> FALSE, paths |-> {PathGA, PathGB}]}

HIdle ==
    /\ file = File(Absent, Absent, Absent)
    /\ filename = <<"x">>
    /\ auto_merge = FALSE
    /\ use_datasets = [all |-> TRUE, paths |-> {}]
    /\ pc = "idle"
    /\ handle = "unopened"
    /\ events = <<>>
    /\ datasets = EmptyDict
    /\ order = <<>>
    /\ pos = 1
    /\ label_base = <<>>
    /\ data_by_shape = EmptyDict
    /\ groups = <<>>
    /\ heap = <<>>
    /\ reference_shape = <<>>
    /\ arrays = EmptyDict
    /\ result = <<>>
    /\ error = NoError

\* hdf5_reader(filename, auto_merge=auto_merge) on any file
ReaderInit ==
    /\ HInit("r_start")
    /\ filename \in Filenames
    /\ auto_merge \in BOOLEAN
    /\ use_datasets = [all |-> TRUE, paths |-> {}]
    /\ VIdle

ReaderNext ==
    \/ R_Open
    \/ R_Collect
    \/ R_Plain
    \/ R_Table
    \/ R_TableRaises
    \/ R_Close
    \/ R_Return

SpecReader == ReaderInit /\ [][ReaderNext]_vars

\* extract_data_hdf5(filename, use_datasets) on any file
ExtractInit ==
    /\ HInit("e_start")
    /\ filename = <<"x", ".", "h5">>
    /\ auto_merge = FALSE
    /\ use_datasets \in UseDatasets
    /\ VIdle

ExtractNext ==
    \/ E_Open
    \/ E_Collect
    \/ E_Filter
    \/ E_Reference
    \/ E_ReferenceRaises
    \/ E_Check
    \/ E_CheckDone
    \/ E_Extract
    \/ E_Close
    \/ E_Return

SpecExtract == ExtractInit /\ [][ExtractNext]_vars

\* a VisualAttributes object: its construction, then assignments and copies
VisualInit == HIdle /\ VIdle

VisualNext ==
    \/ V_Init
    \/ V_SetAttr
    \/ V_Set

SpecVisual == VisualInit /\ [][VisualNext]_vars

-----------------------------------------------------------------------------
(* Properties of hdf5_reader, under SpecReader *)

\* the collected leaves of kind float or integer
PlainKeys == {k \in DOMAIN datasets : datasets[k].kind \in {"f", "i"}}

\* the position in the loop of line 116 of the leaf whose label is l
CreatorPos(l) == CHOOSE p \in 1..Len(order) : Label(label_base, order[p]) = l

\* C1: when hdf5_reader returns, the number of returned records made for the plain
\* leaves is the number of distinct shapes among them with auto_merge, and the number
\* of plain leaves without it.
C1_ShapeGrouping ==
    pc = "done" =>
        LET produced == {i \in 1..Len(result) :
                            \E k \in PlainKeys : result[i].label = Label(label_base, k)}
        IN Cardinality(produced) =
              IF auto_merge THEN Cardinality({datasets[k].shape : k \in PlainKeys})
              ELSE Cardinality(PlainKeys)

\* three plain leaves of two shapes were merged into two records
C1_Witness ==
    /\ pc = "done" /\ auto_merge
    /\ Cardinality(PlainKeys) = 3
    /\ Cardinality({datasets[k].shape : k \in PlainKeys}) = 2
    /\ Len(result) = 2

\* C2: the records made so far, and the records returned, are in the order in which the
\* loop met the leaves that created them: each record carries the label of one leaf of
\* the file, its first component is that leaf's, and a record is ahead of another iff
\* its leaf was met first; a leaf merged later moves nothing.
C2_FirstCreationOrder ==
    pc \in {"r_loop", "r_closed", "done"} =>
        LET out == IF pc = "done" THEN result
                   ELSE [i \in 1..Len(groups) |-> heap[groups[i].data]]
        IN /\ \A i \in 1..Len(out) :
                /\ \E p \in 1..Len(order) : Label(label_base, order[p]) = out[i].label
                /\ out[i].components[1].values.of = order[CreatorPos(out[i].label)]
           /\ \A i, j \in 1..Len(out) :
                i < j <=> CreatorPos(out[i].label) < CreatorPos(out[j].label)

\* the third leaf met was merged into the first record after the second record was made
C2_Witness ==
    /\ pc = "done" /\ auto_merge
    /\ Len(order) = 3 /\ Len(result) = 2
    /\ Len(result[1].components) = 2
    /\ result[1].components[2].values.of = order[3]
    /\ result[2].components[1].values.of = order[2]

\* C3 as claimed: when hdf5_reader returns, every plain leaf has put in a returned record
\* a component holding its data and labelled with its leaf name (the last segment of
\* its path).
C3_LabelIsLeafName ==
    pc = "done" =>
        \A k \in PlainKeys :
            \E i \in 1..Len(result) : \E c \in 1..Len(result[i].components) :
                /\ result[i].components[c].values = Value(datasets[k])
                /\ result[i].components[c].label = LeafName(k)

\* C3 as amended: when hdf5_reader returns, every plain leaf has put in a returned record
\* a component holding its data and labelled with its full path, the key of the leaf in
\* the collected mapping.
C3_LabelIsFullPath ==
    pc = "done" =>
        \A k \in PlainKeys :
            \E i \in 1..Len(result) : \E c \in 1..Len(result[i].components) :
                /\ result[i].components[c].values = Value(datasets[k])
                /\ result[i].components[c].label = k

\* /a and /g/a of one shape, auto_merge on, label base x: one record x[/a] whose two
\* components are labelled /a and /g/a
C3_Witness ==
    /\ pc = "done" /\ auto_merge
    /\ Len(result) = 1
    /\ result[1].label = <<"x", "[", "/", "a", "]">>
    /\ Len(result[1].components) = 2
    /\ result[1].components[1].label = PathA
    /\ result[1].components[2].label = PathGA

-----------------------------------------------------------------------------
(* Properties of extract_data_hdf5, under SpecExtract *)

\* the leaves of the file left once the structured ones are dropped
Remaining == DictPop(ExtractHdf5Datasets(file), Tabular(ExtractHdf5Datasets(file)))

Ended == pc \in {"done", "raised"}

\* C4 as claimed: with a list of paths as use_datasets, the returned mapping has only
\* keys of that list, and a failure of the shape check is due to two leaves of the list.
C4_OnlyRequested ==
    (Ended /\ ~use_datasets.all) =>
        /\ pc = "done" => DOMAIN result \subseteq use_datasets.paths
        /\ (pc = "raised" /\ error.type = "Exception") =>
               \E k1, k2 \in DOMAIN Remaining \cap use_datasets.paths :
                   Remaining[k1].shape # Remaining[k2].shape

\* C5 as claimed: when no leaf is left once the structured leaves are dropped,
\* extract_data_hdf5 returns an empty mapping and raises nothing.
C5_EmptyIsNoOp ==
    (Ended /\ DOMAIN Remaining = {}) =>
        pc = "done" /\ result = EmptyDict /\ error = NoError

\* C6 as claimed: extract_data_hdf5 fails iff two of the remaining leaves differ in
\* shape; the failure is an InconsistentShapes error carrying the expected shape, the
\* actual shape and the path of the offending leaf; on success the mapping has one
\* array per remaining leaf and all arrays have one shape.
C6_FailsIffShapesDiffer ==
    Ended =>
        /\ pc = "raised" <=>
              \E k1, k2 \in DOMAIN Remaining : Remaining[k1].shape # Remaining[k2].shape
        /\ pc = "raised" =>
              /\ error.type = "InconsistentShapes"
              /\ {"expected", "actual", "path"} \subseteq DOMAIN error
        /\ pc = "done" =>
              /\ DOMAIN result = DOMAIN Remaining
              /\ \A k1, k2 \in DOMAIN result : result[k1].shape = result[k2].shape

\* C9 as claimed: a run that has opened the file and has ended, by a return or by an
\* exception, has closed the file exactly once, after every read of a leaf.
C9_ClosedOnceAfterReads ==
    (Ended /\ \E i \in 1..Len(events) : events[i].ev = "open") =>
        /\ Cardinality({i \in 1..Len(events) : events[i].ev = "close"}) = 1
        /\ \A i, j \in 1..Len(events) :
              (events[i].ev = "read" /\ events[j].ev = "close") => i < j

-----------------------------------------------------------------------------
(* Properties of VisualAttributes, under SpecVisual *)

Schema == {"color", "linewidth", "linestyle", "alpha", "parent", "marker", "markersize",
           "label"}

LineStyles == {"solid", "dashed", "dash-dot", "dotted", "none"}

IsLineStyle(v) == v.type = "str" /\ v.s \in LineStyles

IsNumber(v) == v.type \in {"int", "float"}

\* C7: an assignment of a linestyle outside the five line styles, of a linewidth that is
\* no number or is negative, or to a name outside the eight attributes raises; and an
\* assignment that raises leaves every attribute as it was, adds none and makes no
\* broadcast.
C7_FailedWriteChangesNothing ==
    last.call.op = "__setattr__" =>
        LET a == last.call.attribute
            v == last.call.value
            invalid == \/ a = "linestyle" /\ ~IsLineStyle(v)
                       \/ a = "linewidth" /\ v.type \in {"str", "NoneType", "object", "Hub"}
                       \/ a = "linewidth" /\ IsNumber(v) /\ v.s # "nan" /\ v.n < 0
                       \/ a \notin Schema
        IN /\ invalid => last.raised # NoRaise
           /\ last.raised # NoRaise =>
                 /\ attrs = before
                 /\ DOMAIN attrs = Schema
                 /\ sent = <<>>

\* linestyle = 'bold' was refused on an object whose parent broadcasts
C7_Witness ==
    /\ last.call.op = "__setattr__"
    /\ last.call.attribute = "linestyle" /\ last.call.value = PyStr("bold")
    /\ last.raised # NoRaise
    /\ attrs["parent"] = Hub("hub1")
    /\ attrs["linestyle"] = PyStr("dashed")

\* C8: an assignment that does not raise has stored the value; if the parent of the
\* object, as it is after the assignment, has a broadcast method, exactly one broadcast
\* was made, to that parent, with the object holding the new value; otherwise none was.
C8_OneBroadcastAfterStore ==
    (last.call.op = "__setattr__" /\ last.raised = NoRaise) =>
        /\ attrs[last.call.attribute] = last.call.value
        /\ \A n \in Schema \ {last.call.attribute} : attrs[n] = before[n]
        /\ IF attrs["parent"].type = "Hub"
           THEN sent = <<[to |-> attrs["parent"], record |-> attrs]>>
           ELSE sent = <<>>

\* linestyle = 'dotted' was stored over another line style and broadcast once
C8_Witness ==
    /\ last.call.op = "__setattr__" /\ last.raised = NoRaise
    /\ last.call.attribute = "linestyle" /\ last.call.value = PyStr("dotted")
    /\ before["linestyle"] = PyStr("solid")
    /\ Len(sent) = 1
    /\ sent[1].to = Hub("hub2")
    /\ sent[1].record["linestyle"] = PyStr("dotted")

\* C10 as claimed: every broadcast of a construction, an assignment or a copy is made
\* from an object with all eight attributes, a line style among the five and a linewidth
\* that is a number >= 0; and a construction with a broadcasting parent makes exactly one
\* broadcast.
C10_BroadcastFromValidRecord ==
    /\ \A i \in 1..Len(sent) :
          LET r == sent[i].record
          IN /\ DOMAIN r = Schema
             /\ IsLineStyle(r["linestyle"])
             /\ IsNumber(r["linewidth"])
             /\ r["linewidth"].s # "nan" /\ r["linewidth"].n >= 0
    /\ (last.call.op = "__init__" /\ last.call.value.type = "Hub") => Len(sent) = 1

====
